---- MODULE Spec2Model ----
(***************************************************************************)
(* StockSnap point of sale: the POS screen (scan / manual lookup), the     *)
(* sale sheet (draft editing, validation, low-stock gate), the             *)
(* useTransaction hook (ledger insert, then stock decrement) and the       *)
(* debounce record of the auth store, over a small catalog.                *)
(*                                                                         *)
(* Strings the code inspects (scanned payloads, SKUs, phone numbers,       *)
(* M-Pesa codes, notes, price text) are sequences of one-character         *)
(* strings; server error messages are sequences of words. A nullable       *)
(* value is Null (<<>>) or Some(v) (<<v>>). A React render is part of the  *)
(* step that changes state: every action ends with the memoised callbacks  *)
(* refreshed as useCallback refreshes them.                                *)
(***************************************************************************)
EXTENDS Integers, Sequences, FiniteSets, Bags, TLC

(***************************************************************************)
(* Bounds of the model                                                     *)
(***************************************************************************)
\* Events per behaviour that come from outside the program: what the user
\* types and presses, what the camera reports, and the clock moving on.
\* Responses of the server and timers are not counted.
MaxEvents == 5

\* The number of sales the two clients start between them
MaxSales == 2

(***************************************************************************)
(* Program constants                                                       *)
(***************************************************************************)
SCAN_DEBOUNCE_MS == 2000

Null == <<>>
Some(v) == <<v>>
Val(o) == o[1]

Max(a, b) == IF a >= b THEN a ELSE b

(***************************************************************************)
(* Characters and strings                                                  *)
(***************************************************************************)
Digits == {"0", "1", "2", "3", "4", "5", "6", "7", "8", "9"}
UpperLetters == {"A", "B", "C", "D", "E", "F", "G", "H", "I", "J", "K", "L", "M",
                 "N", "O", "P", "Q", "R", "S", "T", "U", "V", "W", "X", "Y", "Z"}
Whitespace == {" "}

DigitVal(c) ==
    CASE c = "0" -> 0 [] c = "1" -> 1 [] c = "2" -> 2 [] c = "3" -> 3
      [] c = "4" -> 4 [] c = "5" -> 5 [] c = "6" -> 6 [] c = "7" -> 7
      [] c = "8" -> 8 [] c = "9" -> 9

\* String.prototype.toUpperCase on one character (the letters the inputs use)
UpperChar(c) ==
    CASE c = "s" -> "S" [] c = "j" -> "J" [] c = "k" -> "K" [] c = "h" -> "H"
      [] c = "l" -> "L" [] c = "p" -> "P" [] c = "a" -> "A" [] c = "i" -> "I"
      [] c = "d" -> "D" [] OTHER -> c

ToUpperCase(s) == [i \in 1..Len(s) |-> UpperChar(s[i])]

RECURSIVE TrimStart(_)
TrimStart(s) ==
    IF s # <<>> /\ Head(s) \in Whitespace THEN TrimStart(Tail(s)) ELSE s

RECURSIVE TrimEnd(_)
TrimEnd(s) ==
    IF s # <<>> /\ s[Len(s)] \in Whitespace
    THEN TrimEnd(SubSeq(s, 1, Len(s) - 1))
    ELSE s

\* String.prototype.trim
Trim(s) == TrimEnd(TrimStart(s))

StartsWith(s, p) == Len(s) >= Len(p) /\ SubSeq(s, 1, Len(p)) = p

\* String.prototype.includes on a message, word by word
Includes(msg, word) == \E i \in 1..Len(msg) : msg[i] = word

\* input.replace(/\D/g, '')
OnlyDigits(s) == SelectSeq(s, LAMBDA c : c \in Digits)

RECURSIVE DecimalValue(_)
DecimalValue(s) ==
    IF s = <<>> THEN 0
    ELSE 10 * DecimalValue(SubSeq(s, 1, Len(s) - 1)) + DigitVal(s[Len(s)])

\* parseFloat(price) || 0 on the digit text the price input lets through
\* (the empty text parses to NaN, and NaN || 0 is 0)
ParsePrice(text) == IF text = <<>> THEN 0 ELSE DecimalValue(text)

RECURSIVE DigitText(_)
DigitText(n) ==
    IF n < 10 THEN <<CHOOSE c \in Digits : DigitVal(c) = n>>
    ELSE Append(DigitText(n \div 10), CHOOSE c \in Digits : DigitVal(c) = n % 10)

\* String(item.sell_price) for a non-negative integer
NumberToString(n) == DigitText(n)

(***************************************************************************)
(* lib/phone: normalizeKenyanPhone / isValidKenyanPhone                    *)
(***************************************************************************)
normalizeKenyanPhone(input) ==
    LET digits == OnlyDigits(input) IN
    IF StartsWith(digits, <<"2", "5", "4">>) /\ Len(digits) = 12 THEN <<"+">> \o digits
    ELSE IF StartsWith(digits, <<"0">>) /\ Len(digits) = 10
         THEN <<"+", "2", "5", "4">> \o Tail(digits)
    ELSE IF Len(digits) = 9 THEN <<"+", "2", "5", "4">> \o digits
    ELSE <<"+">> \o digits

\* /^\+254[17]\d{8}$/
isValidKenyanPhone(input) ==
    LET n == normalizeKenyanPhone(input) IN
    /\ Len(n) = 13
    /\ SubSeq(n, 1, 4) = <<"+", "2", "5", "4">>
    /\ n[5] \in {"1", "7"}
    /\ \A i \in 6..13 : n[i] \in Digits

\* A code test that forgets the length
IsMpesaCodeOfAnyLength(code) ==
    \A i \in 1..Len(code) : code[i] \in UpperLetters \cup Digits

\* /^[A-Z0-9]{10}$/
IsMpesaCode(code) ==
    /\ Len(code) = 10
    /\ \A i \in 1..10 : code[i] \in UpperLetters \cup Digits

(***************************************************************************)
(* Scanned payloads: the two shapes handleBarcodeScan accepts              *)
(***************************************************************************)
UrlPrefix == <<"s", "t", "o", "c", "k", "s", "n", "a", "p", ":", "/", "/",
               "i", "t", "e", "m", "/">>

\* rawData.match(/^stocksnap:\/\/item\/(.+)$/)
urlMatch(rawData) == StartsWith(rawData, UrlPrefix) /\ Len(rawData) > Len(UrlPrefix)

UrlGroup(rawData) == SubSeq(rawData, Len(UrlPrefix) + 1, Len(rawData))

skuMatchPrefixOnly(rawData) == StartsWith(rawData, <<"S", "S", "-">>)

\* rawData.match(/^SS-\d{4}-[A-Z0-9]{3}-\d{5}$/)
skuMatch(rawData) ==
    /\ Len(rawData) = 17
    /\ SubSeq(rawData, 1, 3) = <<"S", "S", "-">>
    /\ \A i \in 4..7 : rawData[i] \in Digits
    /\ rawData[8] = "-"
    /\ \A i \in 9..11 : rawData[i] \in UpperLetters \cup Digits
    /\ rawData[12] = "-"
    /\ \A i \in 13..17 : rawData[i] \in Digits

(***************************************************************************)
(* The catalog (items table) and the inputs the user and the network give  *)
(***************************************************************************)
CurrentUser == "u1"

SkuA == <<"S", "S", "-", "2", "6", "0", "2", "-", "T", "E", "C", "-", "0", "0", "0", "0", "1">>
SkuB == <<"S", "S", "-", "2", "6", "0", "2", "-", "A", "B", "C", "-", "0", "0", "0", "0", "1">>
SkuI == <<"S", "S", "-", "2", "6", "0", "2", "-", "O", "L", "D", "-", "0", "0", "0", "0", "2">>
SkuO == <<"S", "S", "-", "2", "6", "0", "2", "-", "O", "T", "H", "-", "0", "0", "0", "0", "3">>
LegacyB == <<"A", "B", "C", "1", "2", "3">>

ItemIds == {"A", "B", "I", "O"}

\* Rows of the items table. A is a current item (bare SKU in sku, the URI it
\* was created with in qr_code_data); B is a migrated item (new-format code in sku,
\* the old code in qr_code_data); I is inactive; O belongs to another user.
Items ==
    [i \in ItemIds |->
        CASE i = "A" -> [user_id |-> "u1", is_active |-> TRUE, sku |-> SkuA,
                         qr_code_data |-> UrlPrefix \o SkuA, sell_price |-> 150,
                         sell_price_floor |-> 100, sell_price_ceiling |-> Null,
                         reorder_point |-> 3, quantity_in_stock |-> 5,
                         quantity_sold |-> 0]
          [] i = "B" -> [user_id |-> "u1", is_active |-> TRUE, sku |-> SkuB,
                         qr_code_data |-> LegacyB, sell_price |-> 120,
                         sell_price_floor |-> 100, sell_price_ceiling |-> Some(130),
                         reorder_point |-> 0, quantity_in_stock |-> 1,
                         quantity_sold |-> 4]
          [] i = "I" -> [user_id |-> "u1", is_active |-> FALSE, sku |-> SkuI,
                         qr_code_data |-> UrlPrefix \o SkuI, sell_price |-> 150,
                         sell_price_floor |-> 100, sell_price_ceiling |-> Null,
                         reorder_point |-> 3, quantity_in_stock |-> 5,
                         quantity_sold |-> 0]
          [] i = "O" -> [user_id |-> "u2", is_active |-> TRUE, sku |-> SkuO,
                         qr_code_data |-> UrlPrefix \o SkuO, sell_price |-> 150,
                         sell_price_floor |-> 100, sell_price_ceiling |-> Null,
                         reorder_point |-> 3, quantity_in_stock |-> 5,
                         quantity_sold |-> 0]]

\* What the camera may deliver: A's legacy URI, B's bare code, the inactive
\* item's bare code, and a QR code that is not a StockSnap code.
ScanPayloads == {UrlPrefix \o SkuA, SkuB, SkuI, <<"h", "t", "t", "p", ":", "/", "/", "x">>}

\* What the user may type into the manual SKU field
ManualInputs == {<<" ">>, <<" ">> \o SkuA \o <<" ">>}

\* What the user may type into the price field (after the [^0-9.] filter)
PriceTexts == {<<>>, <<"9", "0">>, <<"1", "2", "0">>, <<"1", "5", "0">>}

PhoneInputs == {<<"0", "7", "1", "2", "3", "4", "5", "6", "7", "8">>,
                <<"0", "2", "0", "1", "2", "3", "4", "5", "6", "7">>}

CodeInputs == {<<"s", "j", "4", "5", "k", "7", "h", "2", "l", "9">>,
               <<"S", "J", "4", "5", "-", "7", "H", "2", "L", "9">>}

NoteInputs == {<<" ">>, <<" ", "p", "a", "i", "d", " ">>}

PAYMENT_METHODS == {"cash", "mpesa_stk", "mpesa_till", "other"}

\* Error messages of the decrement_stock RPC: the function is not deployed,
\* or the call failed for another reason
RpcErrors == {<<"function", "decrement_stock", "does", "not", "exist">>,
              <<"network", "request", "failed">>}

Callers == {"pos", "other"}

(***************************************************************************)
(* State                                                                   *)
(***************************************************************************)
VARIABLES
    \* database: items.quantity_in_stock, items.quantity_sold, transactions
    stock, sold, ledger,
    \* auth store: the debounce record and the signed-in user, and the clock
    \* Date.now() reads
    lastScannedSku, lastScanTime, user, now,
    \* PosScreen
    isProcessing, scannedItem, showSheet, isLookingUp, manualSku,
    scanLookup, manualLookups, confirmItem,
    \* toast store, and the low-stock toasts waiting on setTimeout
    toast, timers,
    \* SaleSheet
    price, quantity, paymentMethod, mpesaPhone, mpesaCode, notes,
    hc, alert, alertEnv,
    \* useTransaction, one hook instance per caller
    sale,
    \* history: the last step taken, the outside events so far, createSale
    \* calls so far, the sale ids decrementStock was called for, the
    \* low-stock warnings shown for the confirm in progress
    \* and the quantities whose stock adjustment reported success, by item
    last, events, attempts, decLog, gate, adjusted

dbVars == <<stock, sold, ledger>>
storeVars == <<lastScannedSku, lastScanTime, user>>
posVars == <<isProcessing, scannedItem, showSheet, isLookingUp, manualSku,
             scanLookup, manualLookups, confirmItem>>
toastVars == <<toast, timers>>
draftVars == <<price, quantity, paymentMethod, mpesaPhone, mpesaCode, notes>>
sheetVars == <<price, quantity, paymentMethod, mpesaPhone, mpesaCode, notes,
               hc, alert, alertEnv>>

vars == <<stock, sold, ledger, lastScannedSku, lastScanTime, user, now,
          isProcessing, scannedItem, showSheet, isLookingUp, manualSku,
          scanLookup, manualLookups, confirmItem, toast, timers,
          price, quantity, paymentMethod, mpesaPhone, mpesaCode, notes,
          hc, alert, alertEnv, sale, last, events, attempts, decLog, gate, adjusted>>

\* showSheetRef.current = showSheet on every render
showSheetRef == showSheet

IdleSale == [pc |-> "idle", isLoading |-> FALSE, error |-> Null, payload |-> Null,
             fetched |-> Null, before |-> Null, id |-> 0, result |-> Null]

NoToast == [kind |-> "none"]

\* The application right after the POS screen mounted, and the counters the
\* database holds beside the stock
InitApp ==
    /\ sold = [i \in ItemIds |-> Items[i].quantity_sold]
    /\ ledger = <<>>
    /\ lastScannedSku = Null
    /\ lastScanTime = 0
    /\ user = Some(CurrentUser)
    /\ now = SCAN_DEBOUNCE_MS
    /\ isProcessing = FALSE
    /\ scannedItem = Null
    /\ showSheet = FALSE
    /\ isLookingUp = FALSE
    /\ manualSku = <<>>
    /\ scanLookup = Null
    /\ manualLookups = EmptyBag
    /\ confirmItem = Null
    /\ toast = NoToast
    /\ timers = {}
    /\ price = <<>>
    /\ quantity = 1
    /\ paymentMethod = "cash"
    /\ mpesaPhone = <<>>
    /\ mpesaCode = <<>>
    /\ notes = <<>>
    /\ hc = Null
    /\ alert = "none"
    /\ alertEnv = Null
    /\ sale = [c \in Callers |-> IdleSale]
    /\ last = "Init"
    /\ events = 0
    /\ attempts = 0
    /\ decLog = {}
    /\ gate = 0
    /\ adjusted = [i \in ItemIds |-> 0]

Init ==
    /\ stock = [i \in ItemIds |-> Items[i].quantity_in_stock]
    /\ InitApp

(***************************************************************************)
(* SaleSheet: derived values and the memoised callbacks                    *)
(***************************************************************************)
\* const priceNum = useMemo(() => parseFloat(price) || 0, [price])
priceNum == ParsePrice(price)

\* A price check that forgets the ceiling
priceErrorFloorOnly(p, itemId) ==
    LET item == Items[itemId] IN
    IF p < item.sell_price_floor
    THEN Some([bound |-> "Min price", value |-> item.sell_price_floor])
    ELSE Null

\* A price check that rejects the ceiling itself
priceErrorAtCeiling(p, itemId) ==
    LET item == Items[itemId] IN
    IF p < item.sell_price_floor
    THEN Some([bound |-> "Min price", value |-> item.sell_price_floor])
    ELSE IF item.sell_price_ceiling # Null /\ p >= Val(item.sell_price_ceiling)
         THEN Some([bound |-> "Max price", value |-> Val(item.sell_price_ceiling)])
         ELSE Null

\* The priceError memo for a price and an item: the message names the bound
priceErrorOf(p, itemId) ==
    LET item == Items[itemId] IN
    IF p < item.sell_price_floor
    THEN Some([bound |-> "Min price", value |-> item.sell_price_floor])
    ELSE IF item.sell_price_ceiling # Null /\ p > Val(item.sell_price_ceiling)
         THEN Some([bound |-> "Max price", value |-> Val(item.sell_price_ceiling)])
         ELSE Null

\* The SaleSheet is mounted while the modal shows an item
Mounted == showSheet /\ scannedItem # Null

priceError == priceErrorOf(priceNum, Val(scannedItem).id)

\* The dependency list of handleConfirm
HcDeps ==
    IF Mounted
    THEN <<priceError, paymentMethod, mpesaPhone, mpesaCode, quantity,
           Val(scannedItem).quantity_in_stock>>
    ELSE <<>>

\* What a handleConfirm created in this render closes over: its own
\* dependencies, and through submitSale and onConfirm the values of this
\* render that are not among them (priceNum, notes, scannedItem)
HcEnv ==
    [priceError |-> priceError, paymentMethod |-> paymentMethod,
     mpesaPhone |-> mpesaPhone, mpesaCode |-> mpesaCode, quantity |-> quantity,
     stock |-> Val(scannedItem).quantity_in_stock,
     priceNum |-> priceNum, notes |-> notes, item |-> Val(scannedItem)]

\* useCallback(handleConfirm, deps) across the render that ends a step: a
\* new closure when the sheet mounts or a dependency changed, the old one
\* otherwise
Rendered ==
    IF ~Mounted' THEN Null
    ELSE IF ~Mounted \/ HcDeps' # HcDeps THEN Some(HcEnv')
    ELSE hc

\* State of a SaleSheet that is not mounted
SheetGone ==
    /\ price' = <<>>
    /\ quantity' = 1
    /\ paymentMethod' = "cash"
    /\ mpesaPhone' = <<>>
    /\ mpesaCode' = <<>>
    /\ notes' = <<>>
    /\ alert' = "none"
    /\ alertEnv' = Null

\* The useState initialisers of a SaleSheet mounting on an item
SheetMount(itemId) ==
    /\ price' = NumberToString(Items[itemId].sell_price)
    /\ quantity' = 1
    /\ paymentMethod' = "cash"
    /\ mpesaPhone' = <<>>
    /\ mpesaCode' = <<>>
    /\ notes' = <<>>
    /\ alert' = "none"
    /\ alertEnv' = Null

\* notes.trim() || null
NotesOrNull(n) == IF Trim(n) # <<>> THEN Some(Trim(n)) ELSE Null

\* A submitSale without the STK fallback: the method is handed on as chosen
submitSaleAsChosen(env) ==
    [price |-> env.priceNum, quantity |-> env.quantity,
     paymentMethod |-> env.paymentMethod,
     mpesaPhone |-> IF env.paymentMethod = "mpesa_stk"
                    THEN Some(normalizeKenyanPhone(env.mpesaPhone)) ELSE Null,
     mpesaCode |-> IF env.paymentMethod = "mpesa_till"
                   THEN Some(ToUpperCase(Trim(env.mpesaCode))) ELSE Null,
     notes |-> IF env.paymentMethod = "other" THEN NotesOrNull(env.notes) ELSE Null]

\* submitSale: the data handed to onConfirm by a closure with environment env
submitSale(env) ==
    IF env.paymentMethod = "mpesa_stk"
    THEN [price |-> env.priceNum, quantity |-> env.quantity,
          paymentMethod |-> "cash", mpesaPhone |-> Null, mpesaCode |-> Null,
          notes |-> NotesOrNull(env.notes)]
    ELSE [price |-> env.priceNum, quantity |-> env.quantity,
          paymentMethod |-> env.paymentMethod, mpesaPhone |-> Null,
          mpesaCode |-> IF env.paymentMethod = "mpesa_till"
                        THEN Some(ToUpperCase(Trim(env.mpesaCode)))
                        ELSE Null,
          notes |-> IF env.paymentMethod = "other" THEN NotesOrNull(env.notes)
                    ELSE Null]

\* handleConfirmSale: the SalePayload built from the data and the captured item
SalePayloadOf(data, item) ==
    [item_id |-> item.id, quantity |-> data.quantity,
     price_at_sale |-> data.price,
     total_amount |-> data.price * data.quantity,
     payment_method |-> data.paymentMethod,
     payment_status |-> IF data.paymentMethod = "mpesa_stk" THEN "pending"
                        ELSE "confirmed",
     mpesa_transaction_code |-> data.mpesaCode,
     mpesa_phone |-> data.mpesaPhone,
     notes |-> data.notes]

(***************************************************************************)
(* useTransaction: createSale and decrementStock, one step per await       *)
(***************************************************************************)
\* createSale up to its first await: setIsLoading(true), setError(null),
\* the insert is issued
CreateSaleCall(c, payload) ==
    /\ attempts' = attempts + 1
    /\ sale' = [sale EXCEPT ![c] =
            [pc |-> "insert", isLoading |-> TRUE, error |-> Null,
             payload |-> Some(payload), fetched |-> Null, before |-> Null,
             id |-> attempts + 1, result |-> Null]]

\* The row createSale inserts
TransactionRow(c) ==
    LET p == Val(sale[c].payload) IN
    [id |-> sale[c].id, user_id |-> CurrentUser, item_id |-> p.item_id,
     transaction_type |-> "sale", quantity |-> p.quantity,
     price_at_sale |-> p.price_at_sale, total_amount |-> p.total_amount,
     payment_method |-> p.payment_method, payment_status |-> p.payment_status,
     mpesa_transaction_code |-> p.mpesa_transaction_code,
     mpesa_phone |-> p.mpesa_phone, notes |-> p.notes]

\* An insert that overwrites the latest transaction (an upsert)
InsertOkUpserts(c) ==
    /\ sale[c].pc = "insert"
    /\ ledger' = IF ledger = <<>> THEN <<TransactionRow(c)>>
                 ELSE [ledger EXCEPT ![Len(ledger)] = TransactionRow(c)]
    /\ decLog' = decLog \cup {sale[c].id}
    /\ sale' = [sale EXCEPT ![c].pc = "rpc",
                            ![c].before =
                                Some([quantity_in_stock |-> stock[Val(sale[c].payload).item_id],
                                      quantity_sold |-> sold[Val(sale[c].payload).item_id]])]

\* The insert succeeded: decrementStock is called and issues the RPC
InsertOk(c) ==
    /\ sale[c].pc = "insert"
    /\ ledger' = Append(ledger, TransactionRow(c))
    /\ decLog' = decLog \cup {sale[c].id}
    /\ sale' = [sale EXCEPT ![c].pc = "rpc",
                            ![c].before =
                                Some([quantity_in_stock |-> stock[Val(sale[c].payload).item_id],
                                      quantity_sold |-> sold[Val(sale[c].payload).item_id]])]

\* A createSale that goes on to the stock decrement whatever the insert did
InsertFailThenDecrement(c) ==
    /\ sale[c].pc = "insert"
    /\ sale' = [sale EXCEPT ![c].pc = "idle", ![c].isLoading = FALSE,
                            ![c].error = Some(<<"insert", "failed">>),
                            ![c].result = Some(FALSE)]
    /\ decLog' = decLog \cup {sale[c].id}
    /\ UNCHANGED ledger

\* The insert failed: setError(txError.message), return false
InsertFail(c) ==
    /\ sale[c].pc = "insert"
    /\ sale' = [sale EXCEPT ![c].pc = "idle", ![c].isLoading = FALSE,
                            ![c].error = Some(<<"insert", "failed">>),
                            ![c].result = Some(FALSE)]
    /\ UNCHANGED <<ledger, decLog>>

\* createSale after decrementStock returned stockError: return true
SaleReturn(c, stockError) ==
    sale' = [sale EXCEPT ![c].pc = "idle", ![c].isLoading = FALSE,
                         ![c].error =
                             IF stockError # Null
                             THEN Some(<<"Sale", "recorded.", "Stock", "update", "failed:">>
                                       \o Val(stockError))
                             ELSE sale[c].error,
                         ![c].result = Some(TRUE)]

\* The decrement_stock database function, as the repository documents it:
\* one atomic update of the item's row
decrement_stock(item_id, qty) ==
    /\ stock' = [stock EXCEPT ![item_id] = Max(0, stock[item_id] - qty)]
    /\ sold' = [sold EXCEPT ![item_id] = sold[item_id] + qty]

\* History: a stock adjustment of qty on item_id reported success
Adjusted(item_id, qty) ==
    adjusted' = [adjusted EXCEPT ![item_id] = adjusted[item_id] + qty]

\* The RPC succeeded
RpcOk(c) ==
    /\ sale[c].pc = "rpc"
    /\ decrement_stock(Val(sale[c].payload).item_id, Val(sale[c].payload).quantity)
    /\ Adjusted(Val(sale[c].payload).item_id, Val(sale[c].payload).quantity)
    /\ SaleReturn(c, Null)

\* const isRpcMissing = message.includes('function') || message.includes('does not exist')
isRpcMissing(message) ==
    \/ Includes(message, "function")
    \/ \E i \in 1..(Len(message) - 2) :
          SubSeq(message, i, i + 2) = <<"does", "not", "exist">>

\* The RPC failed: fall back to a direct update when the function is
\* missing, give up otherwise
RpcFail(c, message) ==
    /\ sale[c].pc = "rpc"
    /\ IF isRpcMissing(message)
       THEN sale' = [sale EXCEPT ![c].pc = "fetch"]
       ELSE SaleReturn(c, Some(message))
    /\ UNCHANGED <<stock, sold, adjusted>>

\* The select of the fallback returned the row
FetchOk(c) ==
    /\ sale[c].pc = "fetch"
    /\ sale' = [sale EXCEPT ![c].pc = "update",
                            ![c].fetched =
                                Some([quantity_in_stock |-> stock[Val(sale[c].payload).item_id],
                                      quantity_sold |-> sold[Val(sale[c].payload).item_id]])]
    /\ UNCHANGED <<stock, sold, adjusted>>

\* The select of the fallback failed
FetchFail(c) ==
    /\ sale[c].pc = "fetch"
    /\ SaleReturn(c, Some(<<"fetch", "failed">>))
    /\ UNCHANGED <<stock, sold, adjusted>>

\* A fallback update without the floor at zero
UpdateOkNoFloor(c) ==
    /\ sale[c].pc = "update"
    /\ LET item_id == Val(sale[c].payload).item_id
           qty == Val(sale[c].payload).quantity
           typed == Val(sale[c].fetched)
       IN /\ stock' = [stock EXCEPT ![item_id] = typed.quantity_in_stock - qty]
          /\ sold' = [sold EXCEPT ![item_id] = typed.quantity_sold + qty]
          /\ Adjusted(item_id, qty)
    /\ SaleReturn(c, Null)

\* The update of the fallback, computed from the row fetched earlier
UpdateOk(c) ==
    /\ sale[c].pc = "update"
    /\ LET item_id == Val(sale[c].payload).item_id
           qty == Val(sale[c].payload).quantity
           typed == Val(sale[c].fetched)
       IN /\ stock' = [stock EXCEPT ![item_id] = Max(0, typed.quantity_in_stock - qty)]
          /\ sold' = [sold EXCEPT ![item_id] = typed.quantity_sold + qty]
          /\ Adjusted(item_id, qty)
    /\ SaleReturn(c, Null)

\* The update of the fallback failed
UpdateFail(c) ==
    /\ sale[c].pc = "update"
    /\ SaleReturn(c, Some(<<"update", "failed">>))
    /\ UNCHANGED <<stock, sold, adjusted>>

(***************************************************************************)
(* PosScreen: lookups                                                      *)
(***************************************************************************)
lookupVars == <<isProcessing, isLookingUp, scanLookup, manualLookups>>
saleHist == <<sale, attempts, decLog, adjusted, gate>>

MatchingRowsAnyOwner(sku) ==
    {i \in ItemIds : Items[i].sku = sku \/ Items[i].qr_code_data = sku}

\* .or(`sku.eq.${sku},qr_code_data.eq.${sku}`).eq('user_id', user.id).eq('is_active', true)
MatchingRows(sku) ==
    {i \in ItemIds :
        /\ Items[i].sku = sku \/ Items[i].qr_code_data = sku
        /\ Items[i].user_id = CurrentUser
        /\ Items[i].is_active}

\* An event from outside the program
Event ==
    /\ events < MaxEvents
    /\ events' = events + 1

\* The clock moves on
Tick ==
    /\ Event
    /\ now' = now + SCAN_DEBOUNCE_MS \div 2
    /\ last' = "Tick"
    /\ UNCHANGED <<dbVars, storeVars, posVars, toastVars, sheetVars, saleHist>>

\* The user types into the manual SKU field
SetManualSku(text) ==
    /\ Event
    /\ ~showSheet
    /\ manualSku # text
    /\ manualSku' = text
    /\ last' = "SetManualSku"
    /\ UNCHANGED <<dbVars, storeVars, now, lookupVars, scannedItem, showSheet,
                   confirmItem, toastVars, sheetVars, saleHist>>

\* A scan guard without the open-sheet check
ScanBlockedByLookupOnly == isProcessing

\* if (isProcessing.current) return; if (showSheetRef.current) return;
ScanBlocked == isProcessing \/ showSheetRef

\* A debounce that looks at the time of the last scan only
DebouncedWhateverCode(sku) ==
    lastScannedSku # Null /\ now - lastScanTime < SCAN_DEBOUNCE_MS

\* if (sku === lastScannedSku && Date.now() - lastScanTime < SCAN_DEBOUNCE_MS)
Debounced(sku) ==
    lastScannedSku = Some(sku) /\ now - lastScanTime < SCAN_DEBOUNCE_MS

\* The camera reports a QR code
handleBarcodeScan(rawData) ==
    /\ Event
    /\ IF ScanBlocked
       THEN /\ last' = "ScanIgnored"
            /\ UNCHANGED <<dbVars, storeVars, now, posVars, toastVars, sheetVars, saleHist>>
       ELSE IF ~urlMatch(rawData) /\ ~skuMatch(rawData)
       THEN /\ last' = "ScanRejected"
            /\ UNCHANGED <<dbVars, storeVars, now, posVars, toastVars, sheetVars, saleHist>>
       ELSE LET sku == IF urlMatch(rawData) THEN UrlGroup(rawData) ELSE Trim(rawData) IN
            IF Debounced(sku)
            THEN /\ last' = "ScanDebounced"
                 /\ UNCHANGED <<dbVars, storeVars, now, posVars, toastVars, sheetVars,
                                saleHist>>
            ELSE /\ lastScannedSku' = Some(sku)
                 /\ lastScanTime' = now
                 /\ isProcessing' = TRUE
                 /\ isLookingUp' = TRUE
                 /\ scanLookup' = Some(sku)
                 /\ last' = "ScanLookup"
                 /\ UNCHANGED <<dbVars, user, now, scannedItem, showSheet, manualSku,
                                manualLookups, confirmItem, toastVars, sheetVars, saleHist>>

\* A manual lookup that goes through the scan debounce
handleManualLookupDebounced ==
    /\ Event
    /\ ~showSheet
    /\ ~(isLookingUp \/ Trim(manualSku) = <<>>)
    /\ ~Debounced(Trim(manualSku))
    /\ isLookingUp' = TRUE
    /\ manualLookups' = manualLookups (+) SetToBag({Trim(manualSku)})
    /\ lastScannedSku' = Some(Trim(manualSku))
    /\ lastScanTime' = now
    /\ last' = "ManualLookup"
    /\ UNCHANGED <<dbVars, user, now, isProcessing, scanLookup, scannedItem,
                   showSheet, manualSku, confirmItem, toastVars, sheetVars, saleHist>>

\* The user presses Find (disabled while isLookingUp or the field is blank)
handleManualLookup ==
    /\ Event
    /\ ~showSheet
    /\ ~(isLookingUp \/ Trim(manualSku) = <<>>)
    /\ LET sku == Trim(manualSku) IN
       /\ sku # <<>>
       /\ isLookingUp' = TRUE
       /\ manualLookups' = manualLookups (+) SetToBag({sku})
    /\ last' = "ManualLookup"
    /\ UNCHANGED <<dbVars, storeVars, now, isProcessing, scanLookup, scannedItem,
                   showSheet, manualSku, confirmItem, toastVars, sheetVars, saleHist>>

\* A lookupBySku whose flag is cleared on the way to the sheet only
lookupBySkuNoFinally(sku, origin, outcome) ==
    /\ IF origin = "scan"
       THEN /\ scanLookup = Some(sku)
            /\ scanLookup' = Null
            /\ isProcessing' = FALSE
            /\ UNCHANGED manualLookups
       ELSE /\ BagIn(sku, manualLookups)
            /\ manualLookups' = manualLookups (-) SetToBag({sku})
            /\ UNCHANGED <<scanLookup, isProcessing>>
    /\ isLookingUp' = (isLookingUp /\ ~(outcome = "response" /\ Cardinality(MatchingRows(sku)) = 1))
    /\ LET rows == MatchingRows(sku) IN
       IF outcome = "response" /\ Cardinality(rows) = 1
       THEN LET id == CHOOSE i \in rows : TRUE IN
            /\ scannedItem' = Some([id |-> id, quantity_in_stock |-> stock[id]])
            /\ showSheet' = TRUE
            /\ IF Mounted
               THEN UNCHANGED <<draftVars, alert, alertEnv>>
               ELSE SheetMount(id)
            /\ hc' = Rendered
            /\ last' = "LookupFound"
            /\ UNCHANGED toast
       ELSE /\ toast' = [kind |-> "error",
                         text |-> IF outcome = "response" /\ rows = {}
                                  THEN "Item not in system"
                                  ELSE "Error looking up item"]
            /\ last' = IF outcome = "throw" THEN "LookupThrew"
                       ELSE IF outcome = "response" /\ rows = {} THEN "LookupNotFound"
                       ELSE "LookupError"
            /\ UNCHANGED <<scannedItem, showSheet, sheetVars>>
    /\ UNCHANGED <<dbVars, storeVars, now, manualSku, confirmItem, timers, saleHist,
                   events>>

\* A lookupBySku whose throw leaves the scan guard set
lookupBySkuNoScanFinally(sku, origin, outcome) ==
    /\ IF origin = "scan"
       THEN /\ scanLookup = Some(sku)
            /\ scanLookup' = Null
            /\ isProcessing' = (outcome = "throw")
            /\ UNCHANGED manualLookups
       ELSE /\ BagIn(sku, manualLookups)
            /\ manualLookups' = manualLookups (-) SetToBag({sku})
            /\ UNCHANGED <<scanLookup, isProcessing>>
    /\ isLookingUp' = FALSE
    /\ LET rows == MatchingRows(sku) IN
       IF outcome = "response" /\ Cardinality(rows) = 1
       THEN LET id == CHOOSE i \in rows : TRUE IN
            /\ scannedItem' = Some([id |-> id, quantity_in_stock |-> stock[id]])
            /\ showSheet' = TRUE
            /\ IF Mounted
               THEN UNCHANGED <<draftVars, alert, alertEnv>>
               ELSE SheetMount(id)
            /\ hc' = Rendered
            /\ last' = "LookupFound"
            /\ UNCHANGED toast
       ELSE /\ toast' = [kind |-> "error",
                         text |-> IF outcome = "response" /\ rows = {}
                                  THEN "Item not in system"
                                  ELSE "Error looking up item"]
            /\ last' = IF outcome = "throw" THEN "LookupThrew"
                       ELSE IF outcome = "response" /\ rows = {} THEN "LookupNotFound"
                       ELSE "LookupError"
            /\ UNCHANGED <<scannedItem, showSheet, sheetVars>>
    /\ UNCHANGED <<dbVars, storeVars, now, manualSku, confirmItem, timers, saleHist,
                   events>>

\* lookupBySku after its await, for the lookup of sku started by origin;
\* outcome is what the query did: "response", "error" or "throw"
lookupBySku(sku, origin, outcome) ==
    /\ IF origin = "scan"
       THEN /\ scanLookup = Some(sku)
            /\ scanLookup' = Null
            /\ isProcessing' = FALSE
            /\ UNCHANGED manualLookups
       ELSE /\ BagIn(sku, manualLookups)
            /\ manualLookups' = manualLookups (-) SetToBag({sku})
            /\ UNCHANGED <<scanLookup, isProcessing>>
    /\ isLookingUp' = FALSE
    /\ LET rows == MatchingRows(sku) IN
       IF outcome = "response" /\ Cardinality(rows) = 1
       THEN LET id == CHOOSE i \in rows : TRUE IN
            /\ scannedItem' = Some([id |-> id, quantity_in_stock |-> stock[id]])
            /\ showSheet' = TRUE
            /\ IF Mounted
               THEN UNCHANGED <<draftVars, alert, alertEnv>>
               ELSE SheetMount(id)
            /\ hc' = Rendered
            /\ last' = "LookupFound"
            /\ UNCHANGED toast
       ELSE /\ toast' = [kind |-> "error",
                         text |-> IF outcome = "response" /\ rows = {}
                                  THEN "Item not in system"
                                  ELSE "Error looking up item"]
            /\ last' = IF outcome = "throw" THEN "LookupThrew"
                       ELSE IF outcome = "response" /\ rows = {} THEN "LookupNotFound"
                       ELSE "LookupError"
            /\ UNCHANGED <<scannedItem, showSheet, sheetVars>>
    /\ UNCHANGED <<dbVars, storeVars, now, manualSku, confirmItem, timers, saleHist,
                   events>>

QueryOutcomes == {"response", "error", "throw"}

\* The lookup a scan started returns
ScanLookupReturns(outcome) ==
    /\ scanLookup # Null
    /\ lookupBySku(Val(scanLookup), "scan", outcome)

\* handleCloseSheet, from the Cancel button (disabled while isLoading)
CancelPress ==
    /\ Event
    /\ Mounted
    /\ alert = "none"
    /\ ~sale["pos"].isLoading
    /\ showSheet' = FALSE
    /\ scannedItem' = Null
    /\ SheetGone
    /\ hc' = Rendered
    /\ last' = "Cancel"
    /\ UNCHANGED <<dbVars, storeVars, now, lookupVars, manualSku, confirmItem,
                   toastVars, saleHist>>

\* handleCloseSheet, from the modal's onRequestClose (hardware back)
RequestClose ==
    /\ Event
    /\ Mounted
    /\ alert = "none"
    /\ showSheet' = FALSE
    /\ scannedItem' = Null
    /\ SheetGone
    /\ hc' = Rendered
    /\ last' = "RequestClose"
    /\ UNCHANGED <<dbVars, storeVars, now, lookupVars, manualSku, confirmItem,
                   toastVars, saleHist>>

(***************************************************************************)
(* SaleSheet: editing the draft                                            *)
(***************************************************************************)
CanEdit == Mounted /\ alert = "none"

Edited(name) ==
    /\ Event
    /\ last' = name
    /\ UNCHANGED <<dbVars, storeVars, now, posVars, toastVars, alert, alertEnv,
                   saleHist>>
    /\ hc' = Rendered

\* onChangeText of the price input, after t.replace(/[^0-9.]/g, '')
SetPrice(text) ==
    /\ CanEdit
    /\ price # text
    /\ price' = text
    /\ UNCHANGED <<quantity, paymentMethod, mpesaPhone, mpesaCode, notes>>
    /\ Edited("SetPrice")

handleIncrement ==
    /\ CanEdit
    /\ quantity' = quantity + 1
    /\ UNCHANGED <<price, paymentMethod, mpesaPhone, mpesaCode, notes>>
    /\ Edited("Increment")

\* A decrement without the floor at 1
handleDecrementUnfloored ==
    /\ CanEdit
    /\ quantity' = quantity - 1
    /\ UNCHANGED <<price, paymentMethod, mpesaPhone, mpesaCode, notes>>
    /\ Edited("Decrement")

handleDecrement ==
    /\ CanEdit
    /\ quantity' = Max(1, quantity - 1)
    /\ UNCHANGED <<price, paymentMethod, mpesaPhone, mpesaCode, notes>>
    /\ Edited("Decrement")

SetPaymentMethod(m) ==
    /\ CanEdit
    /\ paymentMethod # m
    /\ paymentMethod' = m
    /\ UNCHANGED <<price, quantity, mpesaPhone, mpesaCode, notes>>
    /\ Edited("SetPaymentMethod")

\* The phone input is rendered for mpesa_stk only
SetMpesaPhone(text) ==
    /\ CanEdit
    /\ paymentMethod = "mpesa_stk"
    /\ mpesaPhone # text
    /\ mpesaPhone' = text
    /\ UNCHANGED <<price, quantity, paymentMethod, mpesaCode, notes>>
    /\ Edited("SetMpesaPhone")

\* The code input is rendered for mpesa_till only
SetMpesaCode(text) ==
    /\ CanEdit
    /\ paymentMethod = "mpesa_till"
    /\ mpesaCode # text
    /\ mpesaCode' = text
    /\ UNCHANGED <<price, quantity, paymentMethod, mpesaPhone, notes>>
    /\ Edited("SetMpesaCode")

\* The notes input is rendered for other only
SetNotes(text) ==
    /\ CanEdit
    /\ paymentMethod = "other"
    /\ notes # text
    /\ notes' = text
    /\ UNCHANGED <<price, quantity, paymentMethod, mpesaPhone, mpesaCode>>
    /\ Edited("SetNotes")

(***************************************************************************)
(* SaleSheet: confirm, and PosScreen.handleConfirmSale                     *)
(***************************************************************************)
\* submitSale() of a closure with environment env, then handleConfirmSale
\* up to the await of createSale
SubmitFrom(env) ==
    /\ CreateSaleCall("pos", SalePayloadOf(submitSale(env), env.item))
    /\ confirmItem' = Some(env.item)
    /\ toast' = IF env.paymentMethod = "mpesa_stk"
                THEN [kind |-> "warning",
                      text |-> "M-Pesa STK coming soon - recording as cash sale"]
                ELSE toast
    /\ UNCHANGED <<dbVars, decLog, adjusted, storeVars, now, lookupVars, scannedItem,
                   showSheet, manualSku, timers, draftVars, hc>>

\* A low-stock test that also fires when the quantity equals the stock
LowStockOrEqual(env) == env.quantity >= env.stock

\* if (quantity > item.quantity_in_stock), in a closure with environment env
LowStock(env) == env.quantity > env.stock

\* A Confirm button that is not disabled while isLoading
handleConfirmWhileLoading ==
    /\ Event
    /\ Mounted
    /\ alert = "none"
    /\ LET env == Val(hc) IN
       IF priceError # Null
       THEN /\ last' = "ConfirmDisabled"
            /\ UNCHANGED <<dbVars, storeVars, now, posVars, toastVars, sheetVars,
                           saleHist>>
       ELSE IF env.priceError # Null
       THEN /\ last' = "ConfirmPriceError"
            /\ UNCHANGED <<dbVars, storeVars, now, posVars, toastVars, sheetVars,
                           saleHist>>
       ELSE IF env.paymentMethod = "mpesa_stk" /\ ~isValidKenyanPhone(env.mpesaPhone)
       THEN /\ alert' = "Invalid Phone"
            /\ gate' = 0
            /\ last' = "ConfirmInvalidPhone"
            /\ UNCHANGED <<dbVars, storeVars, now, posVars, toastVars, draftVars, hc,
                           alertEnv, sale, attempts, decLog, adjusted>>
       ELSE IF /\ env.paymentMethod = "mpesa_till"
               /\ ~IsMpesaCode(ToUpperCase(Trim(env.mpesaCode)))
       THEN /\ alert' = "Invalid Code"
            /\ gate' = 0
            /\ last' = "ConfirmInvalidCode"
            /\ UNCHANGED <<dbVars, storeVars, now, posVars, toastVars, draftVars, hc,
                           alertEnv, sale, attempts, decLog, adjusted>>
       ELSE IF LowStock(env)
       THEN /\ alert' = "Low Stock Warning"
            /\ alertEnv' = hc
            /\ gate' = 1
            /\ last' = "ConfirmLowStock"
            /\ UNCHANGED <<dbVars, storeVars, now, posVars, toastVars, draftVars, hc,
                           sale, attempts, decLog, adjusted>>
       ELSE /\ SubmitFrom(env)
            /\ gate' = 0
            /\ last' = "ConfirmSubmit"
            /\ UNCHANGED <<alert, alertEnv>>

\* The Confirm button is pressed: nothing when the Pressable is disabled,
\* handleConfirm of the current closure otherwise
handleConfirm ==
    /\ Event
    /\ Mounted
    /\ alert = "none"
    /\ LET env == Val(hc) IN
       IF sale["pos"].isLoading \/ priceError # Null
       THEN /\ last' = "ConfirmDisabled"
            /\ UNCHANGED <<dbVars, storeVars, now, posVars, toastVars, sheetVars,
                           saleHist>>
       ELSE IF env.priceError # Null
       THEN /\ last' = "ConfirmPriceError"
            /\ UNCHANGED <<dbVars, storeVars, now, posVars, toastVars, sheetVars,
                           saleHist>>
       ELSE IF env.paymentMethod = "mpesa_stk" /\ ~isValidKenyanPhone(env.mpesaPhone)
       THEN /\ alert' = "Invalid Phone"
            /\ gate' = 0
            /\ last' = "ConfirmInvalidPhone"
            /\ UNCHANGED <<dbVars, storeVars, now, posVars, toastVars, draftVars, hc,
                           alertEnv, sale, attempts, decLog, adjusted>>
       ELSE IF /\ env.paymentMethod = "mpesa_till"
               /\ ~IsMpesaCode(ToUpperCase(Trim(env.mpesaCode)))
       THEN /\ alert' = "Invalid Code"
            /\ gate' = 0
            /\ last' = "ConfirmInvalidCode"
            /\ UNCHANGED <<dbVars, storeVars, now, posVars, toastVars, draftVars, hc,
                           alertEnv, sale, attempts, decLog, adjusted>>
       ELSE IF LowStock(env)
       THEN /\ alert' = "Low Stock Warning"
            /\ alertEnv' = hc
            /\ gate' = 1
            /\ last' = "ConfirmLowStock"
            /\ UNCHANGED <<dbVars, storeVars, now, posVars, toastVars, draftVars, hc,
                           sale, attempts, decLog, adjusted>>
       ELSE /\ SubmitFrom(env)
            /\ gate' = 0
            /\ last' = "ConfirmSubmit"
            /\ UNCHANGED <<alert, alertEnv>>

\* The alert of a failed field validation is dismissed
AlertDismiss ==
    /\ Event
    /\ alert \in {"Invalid Phone", "Invalid Code"}
    /\ alert' = "none"
    /\ last' = "AlertDismiss"
    /\ UNCHANGED <<dbVars, storeVars, now, posVars, toastVars, draftVars, hc,
                   alertEnv, saleHist>>

\* A Cancel of the warning that goes on with the sale all the same
LowStockCancelSubmits ==
    /\ Event
    /\ alert = "Low Stock Warning"
    /\ SubmitFrom(Val(alertEnv))
    /\ alert' = "none"
    /\ alertEnv' = Null
    /\ last' = "LowStockCancel"
    /\ UNCHANGED gate

\* Low Stock Warning: Cancel
LowStockCancel ==
    /\ Event
    /\ alert = "Low Stock Warning"
    /\ alert' = "none"
    /\ alertEnv' = Null
    /\ last' = "LowStockCancel"
    /\ UNCHANGED <<dbVars, storeVars, now, posVars, toastVars, draftVars, hc,
                   saleHist>>

\* Low Stock Warning: Continue, the submitSale the alert closed over
LowStockContinue ==
    /\ Event
    /\ alert = "Low Stock Warning"
    /\ SubmitFrom(Val(alertEnv))
    /\ alert' = "none"
    /\ alertEnv' = Null
    /\ last' = "LowStockContinue"
    /\ UNCHANGED gate

\* handleConfirmSale after createSale returned true: the toasts, and the
\* sheet is closed
SaleSucceeded ==
    LET item == Val(confirmItem)
        p == Val(sale["pos"].payload)
        remaining == item.quantity_in_stock - p.quantity
    IN /\ toast' = [kind |-> "success", text |-> "Sold", quantity |-> p.quantity,
                    total |-> p.price_at_sale * p.quantity]
       /\ timers' = IF remaining <= Items[item.id].reorder_point /\ remaining >= 0
                    THEN timers \cup {[item |-> item.id, left |-> Max(0, remaining)]}
                    ELSE timers
       /\ showSheet' = FALSE
       /\ scannedItem' = Null
       /\ manualSku' = <<>>
       /\ confirmItem' = Null
       /\ SheetGone
       /\ hc' = Rendered
       /\ UNCHANGED <<storeVars, now, lookupVars, events>>

\* A step of the sale in flight that does not return to handleConfirmSale
SaleContinues == UNCHANGED <<storeVars, now, posVars, toastVars, sheetVars, events>>

\* setTimeout(() => showToast(`Low stock: ...`), 3500) runs
LowStockToast(t) ==
    /\ t \in timers
    /\ timers' = timers \ {t}
    /\ toast' = [kind |-> "warning", text |-> "Low stock", item |-> t.item,
                 left |-> t.left]
    /\ last' = "LowStockToast"
    /\ UNCHANGED <<dbVars, storeVars, now, posVars, sheetVars, saleHist, events>>

PosInsertOk ==
    /\ InsertOk("pos")
    /\ last' = "InsertOk"
    /\ SaleContinues
    /\ UNCHANGED <<stock, sold, attempts, adjusted, gate>>

\* A handleConfirmSale that closes the sheet whatever createSale returned
PosInsertFailCloses ==
    /\ InsertFail("pos")
    /\ confirmItem' = Null
    /\ showSheet' = FALSE
    /\ scannedItem' = Null
    /\ SheetGone
    /\ last' = "InsertFail"
    /\ UNCHANGED <<stock, sold, attempts, adjusted, gate, storeVars, now, lookupVars,
                   manualSku, toastVars, events>>
    /\ hc' = Rendered

\* createSale returned false: handleConfirmSale does nothing more
PosInsertFail ==
    /\ InsertFail("pos")
    /\ confirmItem' = Null
    /\ last' = "InsertFail"
    /\ UNCHANGED <<stock, sold, attempts, adjusted, gate, storeVars, now, lookupVars, scannedItem,
                   showSheet, manualSku, toastVars, sheetVars, events>>

PosRpcOk ==
    /\ RpcOk("pos")
    /\ SaleSucceeded
    /\ last' = "RpcOk"
    /\ UNCHANGED <<ledger, attempts, decLog, gate>>

PosRpcFail(message) ==
    /\ RpcFail("pos", message)
    /\ IF isRpcMissing(message)
       THEN SaleContinues /\ last' = "RpcMissing"
       ELSE SaleSucceeded /\ last' = "RpcFail"
    /\ UNCHANGED <<ledger, attempts, decLog, gate>>

PosFetchOk ==
    /\ FetchOk("pos")
    /\ SaleContinues
    /\ last' = "FetchOk"
    /\ UNCHANGED <<ledger, attempts, decLog, gate>>

PosFetchFail ==
    /\ FetchFail("pos")
    /\ SaleSucceeded
    /\ last' = "FetchFail"
    /\ UNCHANGED <<ledger, attempts, decLog, gate>>

PosUpdateOk ==
    /\ UpdateOk("pos")
    /\ SaleSucceeded
    /\ last' = "UpdateOk"
    /\ UNCHANGED <<ledger, attempts, decLog, gate>>

PosUpdateFail ==
    /\ UpdateFail("pos")
    /\ SaleSucceeded
    /\ last' = "UpdateFail"
    /\ UNCHANGED <<ledger, attempts, decLog, gate>>

(***************************************************************************)
(* The POS screen of one device                                            *)
(***************************************************************************)
Next ==
    \/ Tick
    \/ \E text \in ManualInputs : SetManualSku(text)
    \/ \E rawData \in ScanPayloads : handleBarcodeScan(rawData)
    \/ handleManualLookup
    \/ \E outcome \in QueryOutcomes : ScanLookupReturns(outcome)
    \/ \E sku \in BagToSet(manualLookups), outcome \in QueryOutcomes :
          lookupBySku(sku, "manual", outcome)
    \/ CancelPress
    \/ RequestClose
    \/ \E text \in PriceTexts : SetPrice(text)
    \/ handleIncrement
    \/ handleDecrement
    \/ \E m \in PAYMENT_METHODS : SetPaymentMethod(m)
    \/ \E text \in PhoneInputs : SetMpesaPhone(text)
    \/ \E text \in CodeInputs : SetMpesaCode(text)
    \/ \E text \in NoteInputs : SetNotes(text)
    \/ handleConfirm
    \/ AlertDismiss
    \/ LowStockCancel
    \/ LowStockContinue
    \/ PosInsertOk
    \/ PosInsertFail
    \/ PosRpcOk
    \/ \E message \in RpcErrors : PosRpcFail(message)
    \/ PosFetchOk
    \/ PosFetchFail
    \/ PosUpdateOk
    \/ PosUpdateFail
    \/ \E t \in timers : LowStockToast(t)

Spec == Init /\ [][Next]_vars

(***************************************************************************)
(* Two clients selling at once: createSale called from the POS screen and  *)
(* from another device, against the same database, step by step            *)
(***************************************************************************)
uiVars == <<storeVars, now, posVars, toastVars, sheetVars>>

\* A client's handleConfirmSale calls createSale for a cash sale of qty of
\* an item at its default price (its Confirm button is disabled while
\* isLoading)
StartSale(c, item_id, qty) ==
    /\ Event
    /\ attempts < MaxSales
    /\ ~sale[c].isLoading
    /\ CreateSaleCall(c, [item_id |-> item_id, quantity |-> qty,
                          price_at_sale |-> Items[item_id].sell_price,
                          total_amount |-> Items[item_id].sell_price * qty,
                          payment_method |-> "cash", payment_status |-> "confirmed",
                          mpesa_transaction_code |-> Null, mpesa_phone |-> Null,
                          notes |-> Null])
    /\ last' = "StartSale"
    /\ UNCHANGED <<dbVars, decLog, adjusted, gate, uiVars>>

ClientInsertOk(c) ==
    /\ InsertOk(c)
    /\ last' = "InsertOk"
    /\ UNCHANGED <<stock, sold, attempts, adjusted, gate, events, uiVars>>

ClientInsertFail(c) ==
    /\ InsertFail(c)
    /\ last' = "InsertFail"
    /\ UNCHANGED <<stock, sold, attempts, adjusted, gate, events, uiVars>>

ClientRpcOk(c) ==
    /\ RpcOk(c)
    /\ last' = "RpcOk"
    /\ UNCHANGED <<ledger, attempts, decLog, gate, events, uiVars>>

ClientRpcFail(c, message) ==
    /\ RpcFail(c, message)
    /\ last' = IF isRpcMissing(message) THEN "RpcMissing" ELSE "RpcFail"
    /\ UNCHANGED <<ledger, attempts, decLog, gate, events, uiVars>>

ClientFetchOk(c) ==
    /\ FetchOk(c)
    /\ last' = "FetchOk"
    /\ UNCHANGED <<ledger, attempts, decLog, gate, events, uiVars>>

ClientFetchFail(c) ==
    /\ FetchFail(c)
    /\ last' = "FetchFail"
    /\ UNCHANGED <<ledger, attempts, decLog, gate, events, uiVars>>

ClientUpdateOk(c) ==
    /\ UpdateOk(c)
    /\ last' = "UpdateOk"
    /\ UNCHANGED <<ledger, attempts, decLog, gate, events, uiVars>>

ClientUpdateFail(c) ==
    /\ UpdateFail(c)
    /\ last' = "UpdateFail"
    /\ UNCHANGED <<ledger, attempts, decLog, gate, events, uiVars>>

\* The items the current user can sell, and the quantities of a sale
Sellable == {i \in ItemIds : Items[i].user_id = CurrentUser /\ Items[i].is_active}
SaleQuantities == 1..MaxSales

NextStock ==
    \/ \E c \in Callers, i \in Sellable, q \in SaleQuantities : StartSale(c, i, q)
    \/ \E c \in Callers : ClientInsertOk(c)
    \/ \E c \in Callers : ClientInsertFail(c)
    \/ \E c \in Callers : ClientRpcOk(c)
    \/ \E c \in Callers, message \in RpcErrors : ClientRpcFail(c, message)
    \/ \E c \in Callers : ClientFetchOk(c)
    \/ \E c \in Callers : ClientFetchFail(c)
    \/ \E c \in Callers : ClientUpdateOk(c)
    \/ \E c \in Callers : ClientUpdateFail(c)

SpecStock == Init /\ [][NextStock]_vars

(***************************************************************************)
(* Price entry on the sale sheet, with prices around every bound           *)
(***************************************************************************)
\* The bounds the catalog sets on prices
PriceBounds ==
    {Items[i].sell_price_floor : i \in Sellable}
        \cup {Val(Items[i].sell_price_ceiling) :
                 i \in {j \in Sellable : Items[j].sell_price_ceiling # Null}}

\* What the user types into the price field: each bound, and the prices
\* one below and one above it
BoundaryPriceTexts == {NumberToString(b + d) : b \in PriceBounds, d \in {-1, 0, 1}}

NextPrice ==
    \/ \E rawData \in ScanPayloads : handleBarcodeScan(rawData)
    \/ \E outcome \in QueryOutcomes : ScanLookupReturns(outcome)
    \/ \E text \in BoundaryPriceTexts : SetPrice(text)
    \/ handleConfirm
    \/ PosInsertFail
    \/ CancelPress

SpecPrice == Init /\ [][NextPrice]_vars

(***************************************************************************)
(* Looking items up by every kind of code                                  *)
(***************************************************************************)
\* Payloads of neither shape: a bare code in lower case, a bare code after a
\* blank, the URI prefix with no code behind it, a URI of another kind
OtherPayloads ==
    {<<"S", "S", "-", "2", "6", "0", "2", "-", "a", "b", "c", "-", "0", "0", "0", "0", "1">>,
     <<" ">> \o SkuB,
     UrlPrefix,
     <<"h", "t", "t", "p", ":", "/", "/", "x">>}

\* What the camera may deliver: B's old code in a URI, B's bare code, A's
\* URI, the bare code of another user's item, the URI of the inactive item,
\* and the payloads of neither shape
LookupPayloads ==
    {UrlPrefix \o LegacyB, SkuB, UrlPrefix \o SkuA, SkuO, UrlPrefix \o SkuI}
        \cup OtherPayloads

\* What the user may type into the manual SKU field: B's old code, the whole
\* URI stored for A, the code of another user's item
LookupInputs == {LegacyB, UrlPrefix \o SkuA, SkuO}

NextLookup ==
    \/ \E rawData \in LookupPayloads : handleBarcodeScan(rawData)
    \/ \E outcome \in QueryOutcomes : ScanLookupReturns(outcome)
    \/ \E text \in LookupInputs : SetManualSku(text)
    \/ handleManualLookup
    \/ \E sku \in BagToSet(manualLookups), outcome \in QueryOutcomes :
          lookupBySku(sku, "manual", outcome)
    \/ CancelPress

SpecLookup == Init /\ [][NextLookup]_vars

\* The lookups of SpecLookup, with every query a scan started settling in
\* the end (it resolves or rejects)
SpecLookupFair ==
    /\ SpecLookup
    /\ WF_vars(\E outcome \in QueryOutcomes : ScanLookupReturns(outcome))

(***************************************************************************)
(* Two items with the same stock: B has been restocked to A's quantity     *)
(***************************************************************************)
InitRestocked ==
    /\ stock = [i \in ItemIds |->
                   IF i = "B" THEN Items["A"].quantity_in_stock
                   ELSE Items[i].quantity_in_stock]
    /\ InitApp

NextSwap ==
    \/ \E text \in ManualInputs : SetManualSku(text)
    \/ handleManualLookup
    \/ \E rawData \in ScanPayloads : handleBarcodeScan(rawData)
    \/ \E outcome \in QueryOutcomes : ScanLookupReturns(outcome)
    \/ \E sku \in BagToSet(manualLookups), outcome \in QueryOutcomes :
          lookupBySku(sku, "manual", outcome)
    \/ handleConfirm
    \/ PosInsertOk
    \/ PosInsertFail
    \/ CancelPress

SpecSwap == InitRestocked /\ [][NextSwap]_vars

(***************************************************************************)
(* Editing the draft: the sheet has just opened on a scanned item, and the *)
(* events counted are the ones that follow                                 *)
(***************************************************************************)
\* The state the lookup of a scanned item leaves (lookupBySku found it and
\* the SaleSheet mounted with its useState initialisers)
Presented(id) ==
    /\ stock = [i \in ItemIds |-> Items[i].quantity_in_stock]
    /\ sold = [i \in ItemIds |-> Items[i].quantity_sold]
    /\ ledger = <<>>
    /\ lastScannedSku = Some(Items[id].sku)
    /\ lastScanTime = SCAN_DEBOUNCE_MS
    /\ user = Some(CurrentUser)
    /\ now = SCAN_DEBOUNCE_MS
    /\ isProcessing = FALSE
    /\ scannedItem = Some([id |-> id, quantity_in_stock |-> Items[id].quantity_in_stock])
    /\ showSheet = TRUE
    /\ isLookingUp = FALSE
    /\ manualSku = <<>>
    /\ scanLookup = Null
    /\ manualLookups = EmptyBag
    /\ confirmItem = Null
    /\ toast = NoToast
    /\ timers = {}
    /\ price = NumberToString(Items[id].sell_price)
    /\ quantity = 1
    /\ paymentMethod = "cash"
    /\ mpesaPhone = <<>>
    /\ mpesaCode = <<>>
    /\ notes = <<>>
    /\ alert = "none"
    /\ alertEnv = Null
    /\ sale = [c \in Callers |-> IdleSale]
    /\ last = "LookupFound"
    /\ events = 0
    /\ attempts = 0
    /\ decLog = {}
    /\ gate = 0
    /\ adjusted = [i \in ItemIds |-> 0]
    /\ hc = Some(HcEnv)

InitPresented == \E id \in Sellable : Presented(id)

NextDraft ==
    \/ \E text \in PriceTexts : SetPrice(text)
    \/ handleIncrement
    \/ handleDecrement
    \/ \E m \in PAYMENT_METHODS : SetPaymentMethod(m)
    \/ \E text \in PhoneInputs : SetMpesaPhone(text)
    \/ \E text \in NoteInputs : SetNotes(text)
    \/ handleConfirm
    \/ AlertDismiss
    \/ LowStockCancel
    \/ LowStockContinue
    \/ PosInsertOk
    \/ PosInsertFail
    \/ PosRpcOk
    \/ CancelPress

SpecDraft == InitPresented /\ [][NextDraft]_vars

(***************************************************************************)
(* Sessions: signing out and in again around scans                         *)
(***************************************************************************)
\* handleSignOut of the debug screen: signOut() of the auth store, which
\* sets user, session, phone and mode and nothing else; taken while the POS
\* screen holds no sheet, no lookup and no sale
handleSignOut ==
    /\ Event
    /\ user # Null
    /\ ~showSheet
    /\ scannedItem = Null
    /\ ~isProcessing
    /\ ~isLookingUp
    /\ scanLookup = Null
    /\ manualLookups = EmptyBag
    /\ manualSku = <<>>
    /\ sale["pos"] = IdleSale
    /\ user' = Null
    /\ last' = "signOut"
    /\ UNCHANGED <<dbVars, lastScannedSku, lastScanTime, now, posVars, toastVars,
                   sheetVars, saleHist>>

\* setUser(profile) of the next sign-in
setUser ==
    /\ Event
    /\ user = Null
    /\ user' = Some(CurrentUser)
    /\ last' = "setUser"
    /\ UNCHANGED <<dbVars, lastScannedSku, lastScanTime, now, posVars, toastVars,
                   sheetVars, saleHist>>

\* The POS screen takes scans within a session only
NextSession ==
    \/ Tick
    \/ user # Null /\ \E rawData \in ScanPayloads : handleBarcodeScan(rawData)
    \/ \E outcome \in QueryOutcomes : ScanLookupReturns(outcome)
    \/ CancelPress
    \/ handleSignOut
    \/ setUser

SpecSession == Init /\ [][NextSession]_vars

(***************************************************************************)
(* Paying by M-Pesa code, with codes of every kind                         *)
(***************************************************************************)
\* What the user types into the code field (at most 10 characters, the
\* field's maxLength): lower case, a character that is no letter or digit,
\* nine characters, and nine characters after a blank
TypedCodes ==
    CodeInputs \cup
        {<<"S", "J", "4", "5", "K", "7", "H", "2", "L">>,
         <<" ", "s", "j", "4", "5", "k", "7", "h", "2", "l">>,
         <<"0", "1", "2", "3", "4", "5", "6", "7", "8", "9">>}

NextCode ==
    \/ \E rawData \in ScanPayloads : handleBarcodeScan(rawData)
    \/ \E outcome \in QueryOutcomes : ScanLookupReturns(outcome)
    \/ \E m \in PAYMENT_METHODS : SetPaymentMethod(m)
    \/ \E text \in TypedCodes : SetMpesaCode(text)
    \/ handleConfirm
    \/ AlertDismiss
    \/ PosInsertOk
    \/ PosRpcOk

SpecCode == Init /\ [][NextCode]_vars

(***************************************************************************)
(* Properties                                                              *)
(***************************************************************************)
LedgerIds == {ledger[k].id : k \in 1..Len(ledger)}

Pos == sale["pos"]

\* A price within the bounds of an item
InBounds(itemId, p) ==
    /\ p >= Items[itemId].sell_price_floor
    /\ Items[itemId].sell_price_ceiling # Null => p <= Val(Items[itemId].sell_price_ceiling)

StockWarning == <<"Sale", "recorded.", "Stock", "update", "failed:">>

\* C1: a stock decrement is issued only for a sale whose insert succeeded:
\* every sale whose decrement was issued has its transaction in the ledger,
\* a sale inside decrementStock has it too, a createSale that returned
\* false issued no decrement and wrote no transaction, and while no
\* decrement was issued stock and sold counters are the initial ones
InvC1 ==
    /\ decLog \subseteq LedgerIds
    /\ \A c \in Callers :
          /\ sale[c].pc \in {"rpc", "fetch", "update"} => sale[c].id \in LedgerIds
          /\ sale[c].result = Some(FALSE) =>
                /\ sale[c].id \notin decLog
                /\ sale[c].id \notin LedgerIds
    /\ decLog = {} =>
          \A i \in ItemIds : /\ stock[i] = Items[i].quantity_in_stock
                             /\ sold[i] = Items[i].quantity_sold

\* A failed insert, then the retry whose insert succeeded and whose
\* decrement was issued
WitC1 ==
    /\ attempts = 2
    /\ decLog = {2}
    /\ LedgerIds = {2}
    /\ Pos.pc = "rpc"

\* C2: no transaction is persisted, and none is handed to the insert, with a
\* unit price below its item's floor or above its ceiling when one is set;
\* a press on Confirm while the price is out of bounds starts no sale and
\* leaves the sheet presented
InvC2 ==
    /\ \A k \in 1..Len(ledger) : InBounds(ledger[k].item_id, ledger[k].price_at_sale)
    /\ Pos.pc = "insert" =>
          InBounds(Val(Pos.payload).item_id, Val(Pos.payload).price_at_sale)
    /\ last \in {"ConfirmDisabled", "ConfirmPriceError"} /\ ~Pos.isLoading =>
          /\ Mounted
          /\ ~InBounds(Val(scannedItem).id, priceNum)
          /\ Pos.pc = "idle"

\* Scenario B: floor 100, price 90, Confirm pressed: nothing is inserted
WitC2 ==
    /\ last = "ConfirmDisabled"
    /\ Mounted
    /\ Val(scannedItem).id = "A"
    /\ priceNum = 90
    /\ attempts = 0
    /\ ledger = <<>>

\* C3: a sale reaches the insert without the low-stock warning exactly when
\* its quantity is at most the item's stock, and after one warning and its
\* acknowledgment when the quantity is larger; the warning is raised only for
\* a quantity above the stock and while no sale is in flight, declining it
\* starts no sale, and the acknowledged sale has the requested quantity
InvC3 ==
    /\ gate \in {0, 1}
    /\ Pos.pc = "insert" =>
          LET q == Val(Pos.payload).quantity
              s == Val(confirmItem).quantity_in_stock
          IN /\ q <= s => gate = 0
             /\ q > s => gate = 1
    /\ alert = "Low Stock Warning" =>
          /\ gate = 1
          /\ Pos.pc = "idle"
          /\ Val(alertEnv).quantity > Val(alertEnv).stock
    /\ last = "LowStockCancel" => Pos.pc = "idle" /\ alert = "none"
    /\ last = "LowStockContinue" =>
          /\ Pos.pc = "insert"
          /\ Val(Pos.payload).quantity = quantity

\* The warning was acknowledged and the oversized sale is at the insert
WitC3 ==
    /\ last = "LowStockContinue"
    /\ Pos.pc = "insert"
    /\ gate = 1
    /\ Val(Pos.payload).quantity > Val(confirmItem).quantity_in_stock

\* The warning of a failed stock adjustment is in front of the user: in the
\* error box of a mounted sale sheet, or in a toast
WarningShown ==
    \/ /\ Mounted
       /\ Pos.error # Null
       /\ Len(Val(Pos.error)) >= Len(StockWarning)
       /\ SubSeq(Val(Pos.error), 1, Len(StockWarning)) = StockWarning
    \/ toast.kind = "warning" /\ toast.text = "Sale recorded. Stock update failed"

\* C4 (as claimed): when the stock adjustment fails after a successful
\* insert the transaction stays in the ledger, createSale returns true and
\* the sale completes as successful, and the warning "sale recorded, stock
\* update failed" is reported to the user
InvC4 ==
    last \in {"RpcFail", "FetchFail", "UpdateFail"} =>
        /\ Pos.id \in LedgerIds
        /\ Pos.result = Some(TRUE)
        /\ toast.kind = "success"
        /\ WarningShown

InvC6 ==
    /\ \A k \in 1..Len(ledger) :
          /\ ledger[k].payment_method # "mpesa_stk"
          /\ ledger[k].payment_status = "confirmed"
    /\ Pos.payload # Null =>
          /\ Val(Pos.payload).payment_method # "mpesa_stk"
          /\ Val(Pos.payload).payment_status = "confirmed"
    /\ last \in {"ConfirmSubmit", "LowStockContinue"} /\ paymentMethod = "mpesa_stk" =>
          /\ Val(Pos.payload).payment_method = "cash"
          /\ toast = [kind |-> "warning",
                      text |-> "M-Pesa STK coming soon - recording as cash sale"]

\* A sale confirmed as mpesa_stk is in the ledger as cash
WitC6 ==
    /\ last = "InsertOk"
    /\ Mounted
    /\ paymentMethod = "mpesa_stk"
    /\ Len(ledger) = 1
    /\ ledger[1].payment_method = "cash"
    /\ ledger[1].payment_status = "confirmed"

\* C7 (as claimed, on the direct-update path): when the two clients have
\* each completed one sale of the same item, both through the direct update
\* and both with the adjustment reporting success, the item's stock is
\* max(0, s - q1 - q2) and its sold counter n + q1 + q2
InvC7 ==
    \A i \in ItemIds :
        (/\ attempts = 2
         /\ \A c \in Callers :
               /\ sale[c].pc = "idle"
               /\ sale[c].result = Some(TRUE)
               /\ sale[c].error = Null
               /\ sale[c].fetched # Null
               /\ Val(sale[c].payload).item_id = i)
        => LET q1 == Val(sale["pos"].payload).quantity
               q2 == Val(sale["other"].payload).quantity
           IN /\ stock[i] = Max(0, Items[i].quantity_in_stock - q1 - q2)
              /\ sold[i] = Items[i].quantity_sold + q1 + q2

\* C8: when the stock adjustment of a sale of q has just succeeded, the
\* item's stock is max(0, s - q) and its sold counter n + q, where s and n
\* are the values the adjustment found; no item's stock is ever negative
InvC8 ==
    /\ \A i \in ItemIds : stock[i] >= 0
    /\ last \in {"RpcOk", "UpdateOk"} =>
          LET p == Val(Pos.payload)
              b == Val(Pos.before)
          IN /\ stock[p.item_id] = Max(0, b.quantity_in_stock - p.quantity)
             /\ sold[p.item_id] = b.quantity_sold + p.quantity

\* A sale of 2 of an item with stock 1 through the direct update: the stock
\* is floored at 0
WitC8 ==
    /\ last = "UpdateOk"
    /\ Val(Pos.payload).item_id = "B"
    /\ Val(Pos.payload).quantity = 2
    /\ Val(Pos.before).quantity_in_stock = 1
    /\ stock["B"] = 0
    /\ sold["B"] = Items["B"].quantity_sold + 2

\* C9 (as claimed): while the sale sheet stays open, the presented item is
\* not replaced by the result of another lookup
InvC9 == [][Mounted /\ Mounted' => scannedItem' = scannedItem]_vars

\* C10: a scan event that arrives while the sheet is open or while the
\* lookup of an earlier scan is in flight is ignored: it starts no lookup and
\* leaves the debounce record and everything else as it was
InvC10 ==
    [][/\ events' = events + 1
       /\ last' \in {"ScanIgnored", "ScanRejected", "ScanDebounced", "ScanLookup"}
       /\ showSheet \/ scanLookup # Null
       => /\ last' = "ScanIgnored"
          /\ UNCHANGED <<lastScannedSku, lastScanTime, lookupVars, scannedItem,
                         showSheet, toast>>]_vars

\* A scan was ignored while a sheet was open and the lookup of an earlier
\* scan was still in flight
WitC10 ==
    /\ last = "ScanIgnored"
    /\ showSheet
    /\ scanLookup # Null

\* C11: cancelling has no side effects. A step that closes the sheet while
\* no sale of it is in flight inserts nothing, changes no stock or sold
\* counter and starts no sale, and leaves no sheet and no item presented;
\* declining the low-stock warning inserts and changes nothing either and
\* returns to the open sheet with the item and the draft unchanged
InvC11 ==
    [][/\ (/\ last' \in {"Cancel", "RequestClose"}
           /\ events' = events + 1
           /\ Pos.pc = "idle"
           => /\ UNCHANGED <<ledger, stock, sold, sale, attempts, decLog>>
              /\ ~showSheet'
              /\ scannedItem' = Null)
       /\ (/\ last' = "LowStockCancel"
           /\ events' = events + 1
           => /\ UNCHANGED <<ledger, stock, sold, sale, attempts, decLog>>
              /\ UNCHANGED <<showSheet, scannedItem, draftVars>>
              /\ showSheet /\ scannedItem # Null
              /\ alert' = "none")]_vars

\* The warning was declined and the sheet then cancelled: nothing was
\* inserted
WitC11 ==
    /\ last = "Cancel"
    /\ gate = 1
    /\ ~showSheet
    /\ scannedItem = Null
    /\ attempts = 0
    /\ ledger = <<>>

\* C12 (as claimed): from the moment the insert of a draft is issued until
\* createSale has returned, no action of the user closes the sheet (and with
\* it discards the draft)
InvC12 ==
    [][Pos.pc # "idle" /\ Mounted /\ events' = events + 1
       => Mounted']_vars

\* C13: a scan that passes the guards and resolves to code C at time t is
\* suppressed exactly when the debounce record holds C and a time less than
\* 2000 ms before t; a suppressed scan starts no lookup and leaves the
\* record, any other scan starts the lookup of C and makes (C, t) the record
InvC13 ==
    [][\A rawData \in ScanPayloads :
          LET sku == IF urlMatch(rawData) THEN UrlGroup(rawData) ELSE Trim(rawData) IN
          (/\ ~isProcessing /\ ~showSheet
           /\ urlMatch(rawData) \/ skuMatch(rawData)
           /\ handleBarcodeScan(rawData))
          => /\ last' \in {"ScanDebounced", "ScanLookup"}
             /\ last' = "ScanDebounced" <=>
                   (lastScannedSku = Some(sku) /\ now - lastScanTime < 2000)
             /\ last' = "ScanDebounced" => UNCHANGED <<storeVars, lookupVars>>
             /\ last' = "ScanLookup" =>
                   /\ scanLookup' = Some(sku)
                   /\ lastScannedSku' = Some(sku)
                   /\ lastScanTime' = now]_vars

\* A scan was suppressed half a debounce period after the scan that set the
\* record
WitC13 ==
    /\ last = "ScanDebounced"
    /\ lastScannedSku # Null
    /\ now - lastScanTime = SCAN_DEBOUNCE_MS \div 2
    /\ scanLookup = Null

\* C14: a manual lookup is never suppressed by the debounce: whenever the
\* Find button is enabled (no sheet, no lookup shown in progress, a
\* non-blank field) pressing it starts the lookup of the trimmed text,
\* whatever the debounce record holds; starting a manual lookup and its
\* return leave the debounce record unchanged
InvC14 ==
    /\ [](~showSheet /\ ~isLookingUp /\ Trim(manualSku) # <<>> /\ events < MaxEvents
            => ENABLED handleManualLookup)
    /\ [][/\ last' = "ManualLookup" /\ events' = events + 1
             => /\ manualLookups' = manualLookups (+) SetToBag({Trim(manualSku)})
                /\ UNCHANGED <<lastScannedSku, lastScanTime>>
          /\ manualLookups' # manualLookups
             => UNCHANGED <<lastScannedSku, lastScanTime>>]_vars

\* A manual lookup was started for the code a scan recorded less than
\* 2000 ms earlier
WitC14 ==
    /\ last = "ManualLookup"
    /\ lastScannedSku = Some(Trim(manualSku))
    /\ now - lastScanTime < SCAN_DEBOUNCE_MS
    /\ BagIn(Trim(manualSku), manualLookups)

TenAlphanumerics(code) ==
    /\ Len(code) = 10
    /\ \A i \in 1..Len(code) : code[i] \in UpperLetters \cup Digits

\* C16: with method mpesa_till a confirm goes on (to the low-stock gate or
\* the insert) exactly when the entered code, trimmed and uppercased, is 10
\* characters A-Z or 0-9; otherwise the Invalid Code alert is raised and no
\* sale is started; the sale submitted, and every transaction persisted with
\* method mpesa_till, carries that normalized code and status confirmed
InvC16 ==
    /\ last = "ConfirmInvalidCode" =>
          /\ paymentMethod = "mpesa_till"
          /\ ~TenAlphanumerics(ToUpperCase(Trim(mpesaCode)))
          /\ alert = "Invalid Code"
          /\ Pos.pc = "idle"
    /\ last \in {"ConfirmSubmit", "ConfirmLowStock"} /\ paymentMethod = "mpesa_till" =>
          TenAlphanumerics(ToUpperCase(Trim(mpesaCode)))
    /\ last = "ConfirmSubmit" /\ paymentMethod = "mpesa_till" =>
          /\ Val(Pos.payload).payment_method = "mpesa_till"
          /\ Val(Pos.payload).mpesa_transaction_code = Some(ToUpperCase(Trim(mpesaCode)))
    /\ \A k \in 1..Len(ledger) :
          ledger[k].payment_method = "mpesa_till" =>
              /\ ledger[k].mpesa_transaction_code # Null
              /\ TenAlphanumerics(Val(ledger[k].mpesa_transaction_code))
              /\ ledger[k].payment_status = "confirmed"

\* A code typed in lower case is in the ledger in upper case
WitC16 ==
    /\ Len(ledger) = 1
    /\ ledger[1].payment_method = "mpesa_till"
    /\ mpesaCode = <<"s", "j", "4", "5", "k", "7", "h", "2", "l", "9">>
    /\ ledger[1].mpesa_transaction_code =
          Some(<<"S", "J", "4", "5", "K", "7", "H", "2", "L", "9">>)
    /\ ledger[1].payment_status = "confirmed"

\* The user's own active items that hold a code in sku or in qr_code_data
OwnActiveHolding(sku) ==
    {i \in ItemIds :
        /\ Items[i].user_id = CurrentUser
        /\ Items[i].is_active
        /\ sku \in {Items[i].sku, Items[i].qr_code_data}}

BarePattern ==
    <<"S", "S", "-", "d", "d", "d", "d", "-", "X", "X", "X", "-", "d", "d", "d", "d", "d">>

BareCodeShape(p) ==
    /\ Len(p) = Len(BarePattern)
    /\ \A n \in 1..Len(BarePattern) :
          IF n \in {4, 5, 6, 7, 13, 14, 15, 16, 17} THEN p[n] \in Digits
          ELSE IF n \in {9, 10, 11} THEN p[n] \in UpperLetters \cup Digits
          ELSE p[n] = BarePattern[n]

\* scheme://item/{code} with a scheme and a code of at least one character;
\* the set holds the codes the payload can be read as carrying
UriCodes(p) ==
    {SubSeq(p, k + 8, Len(p)) :
        k \in {j \in 2..Len(p) :
                 /\ j + 8 <= Len(p)
                 /\ SubSeq(p, j, j + 7) = <<":", "/", "/", "i", "t", "e", "m", "/">>}}

\* C18: a scan starts a lookup only for a payload of the URI shape, looked
\* up by the code behind /item/, or of the bare shape SS-dddd-XXX-ddddd,
\* looked up as it is; a scan of a payload of neither shape changes nothing
\* but the event count: no lookup starts, the debounce record, the toast, the
\* alert and the presented item stay as they were.
InvC18 ==
    [][\A rawData \in LookupPayloads :
          handleBarcodeScan(rawData) =>
             /\ last' = "ScanLookup" =>
                   \/ scanLookup' \in {Some(c) : c \in UriCodes(rawData)}
                   \/ BareCodeShape(rawData) /\ scanLookup' = Some(rawData)
             /\ UriCodes(rawData) = {} /\ ~BareCodeShape(rawData) =>
                   /\ last' \in {"ScanRejected", "ScanIgnored"}
                   /\ UNCHANGED <<storeVars, lookupVars, toastVars, scannedItem,
                                  showSheet, sheetVars, dbVars>>]_vars

\* A payload of neither shape has been scanned after an earlier scan left
\* its record and its error toast
WitC18 ==
    /\ last = "ScanRejected"
    /\ lastScannedSku # Null
    /\ scanLookup = Null
    /\ ~isProcessing
    /\ ~isLookingUp
    /\ ~showSheet
    /\ toast.kind = "error"

\* C19 (as claimed): every persisted transaction has total_amount =
\* quantity * price_at_sale and type 'sale', is the row of the payload that
\* was submitted, and that payload references the item the sheet presented
\* when the sale was confirmed
InvC19 ==
    /\ [](\A n \in DOMAIN ledger :
             /\ ledger[n].total_amount = ledger[n].quantity * ledger[n].price_at_sale
             /\ ledger[n].transaction_type = "sale")
    /\ [][/\ Len(ledger') > Len(ledger) =>
                ledger'[Len(ledger')].item_id = Val(Pos.payload).item_id
          /\ Pos.pc = "idle" /\ sale'["pos"].pc = "insert" =>
                Val(sale'["pos"].payload).item_id = Val(scannedItem).id]_vars

\* C20 (as claimed): the step that completes a sale with its stock decrement
\* shows the sale-completed notification with the quantity sold and the
\* total, and, whenever the stock the item is left with (floored at zero) is
\* at most its reorder_point, schedules the low-stock alert for that item
\* with that stock
InvC20 ==
    [][last' \in {"RpcOk", "UpdateOk"} /\ Pos.pc # "idle" /\ sale'["pos"].pc = "idle" =>
          LET p == Val(Pos.payload) IN
          /\ toast'.kind = "success"
          /\ toast'.quantity = p.quantity
          /\ toast'.total = p.total_amount
          /\ stock'[p.item_id] <= Items[p.item_id].reorder_point =>
                \E t \in timers' : t.item = p.item_id /\ t.left = stock'[p.item_id]]_vars

\* C21: a lookup that matches no own active item, that errors or that throws
\* is recoverable: its step presents nothing (item and sheet stay as they
\* were), shows an error toast, writes nothing and starts no sale, and clears
\* isLookingUp (and isProcessing when a scan started it); right after it,
\* with no sheet open and no scan in flight, a scan of an accepted payload
\* starts a lookup unless the debounce suppresses it, and a manual lookup of
\* a typed code is enabled.
InvC21 ==
    /\ [][/\ last' \in {"LookupNotFound", "LookupError", "LookupThrew"}
          /\ scanLookup' # scanLookup \/ manualLookups' # manualLookups
          =>
             /\ toast'.kind = "error"
             /\ UNCHANGED <<scannedItem, showSheet, dbVars, sale, attempts, sheetVars>>
             /\ ~isLookingUp'
             /\ scanLookup' # scanLookup => ~isProcessing']_vars
    /\ [][/\ last \in {"LookupNotFound", "LookupError", "LookupThrew"}
          /\ ~showSheet
          /\ scanLookup = Null
          => \A rawData \in LookupPayloads \ OtherPayloads :
                handleBarcodeScan(rawData) =>
                   /\ last' \in {"ScanLookup", "ScanDebounced"}
                   /\ last' = "ScanDebounced" =>
                         /\ lastScannedSku \in {Some(UrlGroup(rawData)), Some(rawData)}
                         /\ now - lastScanTime < SCAN_DEBOUNCE_MS]_vars
    /\ [](/\ last \in {"LookupNotFound", "LookupError", "LookupThrew"}
          /\ ~showSheet
          /\ Trim(manualSku) # <<>>
          /\ events < MaxEvents
          => ENABLED handleManualLookup)

\* The lookup of a scan found nothing: no sheet, an error toast, nothing
\* written, both flags cleared
WitC21 ==
    /\ last = "LookupNotFound"
    /\ lastScannedSku # Null
    /\ ~showSheet
    /\ scannedItem = Null
    /\ toast = [kind |-> "error", text |-> "Item not in system"]
    /\ ~isLookingUp
    /\ ~isProcessing
    /\ scanLookup = Null
    /\ ledger = <<>>

\* C22 (as claimed): every persisted transaction carries a transaction code
\* only if its method is mpesa_till and a note only if its method is other,
\* and a transaction recorded as cash carries no phone, no code and no note
InvC22 ==
    \A n \in DOMAIN ledger :
        /\ ledger[n].mpesa_transaction_code # Null => ledger[n].payment_method = "mpesa_till"
        /\ ledger[n].notes # Null => ledger[n].payment_method = "other"
        /\ ledger[n].payment_method = "cash" =>
              /\ ledger[n].mpesa_phone = Null
              /\ ledger[n].mpesa_transaction_code = Null
              /\ ledger[n].notes = Null

\* C23 (as claimed): the debounce record is cleared on session end: while no
\* user is signed in the store holds no last scanned code and no scan time,
\* and the first scan after the next sign-in is not suppressed
InvC23 ==
    /\ [](user = Null => lastScannedSku = Null /\ lastScanTime = 0)
    /\ [][last = "setUser" /\ events' = events + 1 => last' # "ScanDebounced"]_vars

\* C24: the ledger is append-only: in every step each transaction persisted
\* before the step is still at its place and unchanged after it, and the
\* step adds at most one transaction
InvC24 ==
    [][/\ \A n \in DOMAIN ledger : n \in DOMAIN ledger' /\ ledger'[n] = ledger[n]
       /\ Len(ledger') <= Len(ledger) + 1]_vars

\* Two transactions are persisted, after an attempt whose insert failed
WitC24 ==
    /\ Len(ledger) = 2
    /\ attempts = 3
    /\ ledger[1].item_id # ledger[2].item_id

\* C25 (as claimed): the payload handed to the insert, and the transaction
\* persisted from it, are built from the draft as the sheet shows it when
\* the sale is confirmed: the quantity, the unit price (the number the price
\* field parses to, which is the price the bounds were checked on) and, for
\* method other, the trimmed note
InvC25 ==
    [][/\ Pos.pc = "idle" /\ sale'["pos"].pc = "insert" =>
             LET p == Val(sale'["pos"].payload) IN
             /\ p.quantity = quantity
             /\ p.price_at_sale = priceNum
             /\ paymentMethod = "other" => p.notes = NotesOrNull(notes)
       /\ Len(ledger') > Len(ledger) =>
             LET row == ledger'[Len(ledger')] IN
             /\ row.quantity = Val(Pos.payload).quantity
             /\ row.price_at_sale = Val(Pos.payload).price_at_sale
             /\ row.notes = Val(Pos.payload).notes]_vars

\* C26: the draft quantity is a positive integer in every reachable state,
\* and so is the quantity of the closure Confirm would run, of every payload
\* handed to createSale and of every persisted transaction
InvC26 ==
    /\ quantity \in Nat \ {0}
    /\ hc # Null => Val(hc).quantity \in Nat \ {0}
    /\ alertEnv # Null => Val(alertEnv).quantity \in Nat \ {0}
    /\ Pos.payload # Null => Val(Pos.payload).quantity \in Nat \ {0}
    /\ \A n \in DOMAIN ledger : ledger[n].quantity \in Nat \ {0}

\* Decrement was pressed at quantity 1 and the quantity is still 1
WitC26 ==
    /\ last = "Decrement"
    /\ events = 1
    /\ Mounted
    /\ quantity = 1

\* C27 (as claimed): in every step in which an item becomes the presented
\* item (none was presented before, or another one was), the draft shown
\* for it is fresh: quantity 1, the price text of its sell_price, method
\* cash, and empty phone, code and note
InvC27 ==
    [][/\ scannedItem' # Null
       /\ showSheet'
       /\ scannedItem = Null \/ Val(scannedItem').id # Val(scannedItem).id
       => /\ quantity' = 1
          /\ price' = NumberToString(Items[Val(scannedItem').id].sell_price)
          /\ paymentMethod' = "cash"
          /\ mpesaPhone' = <<>>
          /\ mpesaCode' = <<>>
          /\ notes' = <<>>]_vars

\* C28: a draft gives at most one persisted transaction. While createSale
\* is running no step calls it again (the payload and the count of calls
\* stay, so no second insert is issued), a Confirm pressed then changes
\* nothing, the stock and sold counters change in the step of that sale's
\* own adjustment only, and the createSale that persisted a transaction
\* ends with the sheet closed and the draft gone.
InvC28 ==
    [][/\ Pos.pc # "idle" =>
             /\ attempts' = attempts
             /\ sale'["pos"].payload = Pos.payload
             /\ sale'["pos"].id = Pos.id
             /\ Len(ledger') > Len(ledger) => Pos.pc = "insert"
             /\ <<stock, sold>>' # <<stock, sold>> => Pos.pc \in {"rpc", "update"}
             /\ last' \in {"ConfirmDisabled", "ConfirmSubmit", "LowStockContinue"} =>
                   /\ last' = "ConfirmDisabled"
                   /\ UNCHANGED <<dbVars, sale, decLog>>
       /\ Pos.pc \notin {"idle", "insert"} /\ sale'["pos"].pc = "idle" =>
             /\ ~showSheet'
             /\ scannedItem' = Null
       /\ Pos.pc = "idle" => ledger' = ledger /\ stock' = stock /\ sold' = sold]_vars

\* Confirm was pressed while the insert of the earlier Confirm was in flight
WitC28 ==
    /\ last = "ConfirmDisabled"
    /\ Mounted
    /\ Pos.pc = "insert"
    /\ Pos.isLoading
    /\ attempts = 1
    /\ ledger = <<>>

\* C29 (as claimed): in every step that presents an item when none was
\* presented, the error of useTransaction that the sheet displays is null
InvC29 ==
    [][scannedItem = Null /\ scannedItem' # Null /\ showSheet' =>
          sale'["pos"].error = Null]_vars

====
